---- MODULE Spec2Model ----
(***************************************************************************)
(* graasp-s3-file-item: the plugin of src/index.ts as a state machine.     *)
(*                                                                         *)
(* State: the plugin as far as it has loaded, the item records of the      *)
(* item/task system, the objects of the S3 bucket, the signed upload urls  *)
(* handed out, the clock, and the requests and tasks in flight, each with  *)
(* what it logged.  Every `await` is a suspension point: one action runs a *)
(* handler from one await to the next.  Spec is the whole plugin from its  *)
(* registration on; MintSpec is its uploads and copies alone, on a file    *)
(* item uploaded earlier.                                                  *)
(*                                                                         *)
(* Optional values (size?, contenttype?, an undefined ContentType) are     *)
(* sequences of length 0 (undefined) or 1.  A filename is [stem, len]: the *)
(* string of len characters that starts as stem does, so substring(0, n)   *)
(* only shortens len.  A hex segment of a key is the 16-bit integer that   *)
(* toString(16).padStart(4, '0') prints.                                   *)
(***************************************************************************)
EXTENDS Integers, Sequences, FiniteSets, TLC

\* ---------------------------------------------------------------- bounds
MaxItems == 2      \* item ids the item system hands out
MaxReqs  == 2      \* requests and tasks in flight at once
MaxClock == 1      \* Date.now() ranges over 0..MaxClock
HexMax   == 0      \* randomHexOf4() ranges over 0..HexMax (65535 in the source)
MaxMints == 2      \* item ids free when MintSpec begins

\* ------------------------------------------------------ program constants
ITEM_TYPE == "s3File"
ORIGINAL_FILENAME_TRUNCATE_LIMIT == 100
DefaultExpiration == 60
\* the plugin options as registered: s3Expiration is not given
s3Expiration == <<>>
\* s3Expiration: expiration = 60
expiration == IF s3Expiration = <<>> THEN DefaultExpiration ELSE s3Expiration[1]
bucket == "bucket"
NotS3FileItemStatusCode == 400
NotS3FileItemCode == "GS3FIERR001"

\* ------------------------------------------------------------ input sets
OtherType == "folder"
Members   == {"m1"}
Filenames == {[stem |-> "report", len |-> 101]}
Sizes     == {0, 1024}
ContentTypes == {"application/pdf"}
DefaultContentType == "binary/octet-stream"

ItemIds == 1..MaxItems

\* ------------------------------------------------------------ undefined
Undefined == <<>>
Some(v)   == <<v>>
NoKey     == <<>>
NoName    == [stem |-> "", len |-> 0]
NoS3File  == [present |-> FALSE, name |-> NoName, key |-> NoKey,
              size |-> Undefined, contenttype |-> Undefined]
NoItem    == [st |-> "free", type |-> "", name |-> NoName, s3File |-> NoS3File]

Min(a, b) == IF a <= b THEN a ELSE b

\* filename.substring(0, n)
substring(f, n) == [stem |-> f.stem, len |-> Min(f.len, n)]

\* the values Math.random() * (1 << 16) | 0 can take
randomHexOf4 == 0..HexMax

\* `${randomHexOf4()}/${randomHexOf4()}/${randomHexOf4()}-${Date.now()}`
GenerateKey(h1, h2, h3, now) == <<h1, h2, h3, now>>

\* ------------------------------------------------------------ results
Pending == [status |-> "pending", error |-> "", statusCode |-> 0,
            value |-> NoS3File, item |-> 0, uploadUrl |-> <<>>]
Ok(v)   == [Pending EXCEPT !.status = "ok", !.value = v]
Err(e)  == [Pending EXCEPT !.status = "error", !.error = e, !.statusCode = 500]

\* new NotS3FileItem(id)
NotS3FileItem == [Pending EXCEPT !.status = "error", !.error = NotS3FileItemCode,
                                 !.statusCode = NotS3FileItemStatusCode]

Idle == [kind |-> "idle", pc |-> "idle", actor |-> "", id |-> 0, src |-> 0,
         filename |-> NoName, itype |-> "", iname |-> NoName, s3File |-> NoS3File,
         key |-> NoKey, calls |-> <<>>, s3 |-> "none", creates |-> 0, updates |-> 0,
         persisted |-> FALSE, logged |-> <<>>, result |-> Pending, found |-> FALSE,
         before |-> NoS3File, fresh |-> FALSE, filledAtStart |-> FALSE,
         fillAtStart |-> NoS3File, staleAtStart |-> FALSE]

VARIABLES
    items,      \* item id -> the persisted item record (st: free, live, deleted)
    nextId,     \* the next item id the item system hands out
    objects,    \* key -> the object of the bucket
    urls,       \* the signed upload urls handed out
    clock,      \* the last value Date.now() returned
    reqs,       \* the requests and tasks in flight, in the order they began
    last,       \* the request or task that ended in the step just taken, as it ended
    minted,     \* history: key generated so far -> whether it was generated again
    fills,      \* history: item id -> the first completed fill, and later overwrites
    plugin      \* the plugin: its options, how far it has loaded, what it registered

vars == <<items, nextId, objects, urls, clock, reqs, last, minted, fills, plugin>>

NoFill == [done |-> FALSE, value |-> NoS3File, overwritten |-> FALSE]

\* ---------------------------------------------------------- the plugin
\* what the caller may have given for a mandatory option: nothing, '' or a value
OptionValues(value) == {Undefined, Some(""), Some(value)}

\* GraaspS3FileItemOptions, the mandatory ones
Options ==
    [s3Region : OptionValues("region"), s3Bucket : OptionValues(bucket),
     s3AccessKeyId : OptionValues("id"), s3SecretAccessKey : OptionValues("secret")]

\* !v of an optional string
Not(v) == v = Undefined \/ v = Some("")

\* a variant: !region || !bucket || !accessKeyId
MandatoryOptionsMissingNoSecret(options) ==
    Not(options.s3Region) \/ Not(options.s3Bucket) \/ Not(options.s3AccessKeyId)

\* !region || !bucket || !accessKeyId || !secretAccessKey
MandatoryOptionsMissing(options) ==
    \/ Not(options.s3Region) \/ Not(options.s3Bucket)
    \/ Not(options.s3AccessKeyId) \/ Not(options.s3SecretAccessKey)

\* new Error('graasp-s3-file-item: mandatory options missing')
ConfigurationError == "graasp-s3-file-item: mandatory options missing"

DeleteHook == "postHook:delete"
CopyHook   == "preHook:copy"
UploadRoute   == "POST /s3-upload"
MetadataRoute == "GET /:id/s3-metadata"

\* the plugin function up to `await fastify.register(graaspFileUploadLimiter, ...)`
PluginBegin(p) ==
    IF MandatoryOptionsMissing(p.options)
    THEN [p EXCEPT !.pc = "failed", !.error = ConfigurationError]
    ELSE [p EXCEPT !.pc = "limiter", !.hooks = p.hooks \cup {DeleteHook}]

\* the rest of the plugin function, or its rejection with the limiter's error
PluginAfterLimiter(p, outcome) ==
    IF outcome = "ok"
    THEN [p EXCEPT !.pc = "ready", !.hooks = p.hooks \cup {CopyHook},
                   !.routes = p.routes \cup {UploadRoute, MetadataRoute}]
    ELSE [p EXCEPT !.pc = "failed", !.error = "limiter"]

\* the plugin has loaded: the server takes requests and runs tasks
Listening == plugin.pc = "ready"

Init ==
    /\ items = [i \in ItemIds |-> NoItem]
    /\ nextId = 1
    /\ objects = <<>>
    /\ urls = {}
    /\ clock = 0
    /\ reqs = <<>>
    /\ last = Idle
    /\ minted = <<>>
    /\ fills = [i \in ItemIds |-> NoFill]
    /\ \E options \in Options :
         plugin = [pc |-> "start", options |-> options, hooks |-> {}, routes |-> {},
                   error |-> ""]

PluginStart ==
    /\ plugin.pc = "start"
    /\ plugin' = PluginBegin(plugin)
    /\ last' = Idle
    /\ UNCHANGED <<items, nextId, objects, urls, clock, reqs, minted, fills>>

PluginLimiterDone ==
    /\ plugin.pc = "limiter"
    /\ \E outcome \in {"ok", "fail"} : plugin' = PluginAfterLimiter(plugin, outcome)
    /\ last' = Idle
    /\ UNCHANGED <<items, nextId, objects, urls, clock, reqs, minted, fills>>

\* one more request may begin
Room == Len(reqs) < MaxReqs

Remove(q, s) == [i \in 1..(Len(q) - 1) |-> IF i < s THEN q[i] ELSE q[i + 1]]

\* request r begins; one that ends at once is not in flight
Begins(r) ==
    /\ reqs' = IF r.pc = "done" THEN reqs ELSE Append(reqs, r)
    /\ last' = IF r.pc = "done" THEN r ELSE Idle

\* the request at s goes on as r; one that has ended is no longer in flight
Becomes(s, r) ==
    /\ reqs' = IF r.pc = "done" THEN Remove(reqs, s) ELSE [reqs EXCEPT ![s] = r]
    /\ last' = IF r.pc = "done" THEN r ELSE Idle

\* the values Date.now() can return: the clock never runs backwards
DateNow == clock..MaxClock

\* the history of the generator after it has produced key
Mint(history, key) ==
    [k \in DOMAIN history \cup {key} |->
        IF k = key THEN key \in DOMAIN history ELSE history[k]]

\* ------------------------------------------------------- item/task system
\* runner.runSingle(createCreateTask(member, itemData, parentId)): the record persisted
CreateItem(itemData) ==
    [st |-> "live", type |-> itemData.type, name |-> itemData.name,
     s3File |-> itemData.s3File]

\* runner.runSingle(createUpdateTask(member, id, itemData)): extra.s3File gets the
\* properties of itemData.extra.s3File
UpdateItem(item, s3FileData) == [item EXCEPT !.s3File = s3FileData]

\* ------------------------------------------------------- POST /s3-upload
\* a variant: the descriptor gets the truncated name
UploadItemDataTruncated(filename, key) ==
    [name |-> substring(filename, ORIGINAL_FILENAME_TRUNCATE_LIMIT),
     type |-> ITEM_TYPE,
     s3File |-> [present |-> TRUE,
                 name |-> substring(filename, ORIGINAL_FILENAME_TRUNCATE_LIMIT),
                 key |-> key, size |-> Undefined, contenttype |-> Undefined]]

\* itemData of the upload handler
UploadItemData(filename, key) ==
    [name |-> substring(filename, ORIGINAL_FILENAME_TRUNCATE_LIMIT),
     type |-> ITEM_TYPE,
     s3File |-> [present |-> TRUE, name |-> filename, key |-> key,
                 size |-> Undefined, contenttype |-> Undefined]]

\* params of s3.getSignedUrlPromise('putObject', params)
UploadParams(key, member, itemId) ==
    [op |-> "getSignedUrl", operation |-> "putObject", Bucket |-> bucket, Key |-> key,
     Expires |-> expiration, Metadata |-> [member |-> member, item |-> itemId]]

\* a variant: the url is signed before the create task runs
UploadBeginSignFirst(member, filename, key) ==
    [Idle EXCEPT !.kind = "upload", !.pc = "create", !.actor = member, !.creates = 1,
                 !.filename = filename, !.key = key,
                 !.itype = UploadItemData(filename, key).type,
                 !.iname = UploadItemData(filename, key).name,
                 !.s3File = UploadItemData(filename, key).s3File,
                 !.calls = <<UploadParams(key, member, 0)>>]

\* the handler up to `await runner.runSingle(task, log)`
UploadBegin(member, filename, key) ==
    [Idle EXCEPT !.kind = "upload", !.pc = "create", !.actor = member, !.creates = 1,
                 !.filename = filename, !.key = key,
                 !.itype = UploadItemData(filename, key).type,
                 !.iname = UploadItemData(filename, key).name,
                 !.s3File = UploadItemData(filename, key).s3File]

\* the create task has returned `item`: build params, call getSignedUrlPromise
UploadAfterCreate(r, itemId) ==
    [r EXCEPT !.id = itemId, !.persisted = TRUE, !.pc = "sign", !.s3 = "inflight",
              !.calls = Append(r.calls, UploadParams(r.key, r.actor, itemId))]

\* log.error(error, 'graasp-s3-file-item: failed to get signed url for upload')
SignLogEntry ==
    [msg |-> "graasp-s3-file-item: failed to get signed url for upload", key |-> NoKey]

\* a variant: the catch asks for the url once more before it gives up
UploadAfterSignRetried(r, outcome) ==
    IF outcome = "ok"
    THEN [r EXCEPT !.pc = "done", !.s3 = "ok",
                   !.result = [Ok(r.s3File) EXCEPT !.item = r.id,
                                                   !.uploadUrl = <<r.calls[Len(r.calls)]>>]]
    ELSE IF Len(r.calls) < 2
    THEN [r EXCEPT !.calls = Append(r.calls, UploadParams(r.key, r.actor, r.id)),
                   !.logged = Append(r.logged, SignLogEntry)]
    ELSE [r EXCEPT !.pc = "done", !.s3 = "failed", !.result = Err("s3"),
                   !.logged = Append(r.logged, SignLogEntry)]

\* the try/catch around getSignedUrlPromise
UploadAfterSign(r, outcome) ==
    IF outcome = "ok"
    THEN [r EXCEPT !.pc = "done", !.s3 = "ok",
                   !.result = [Ok(r.s3File) EXCEPT !.item = r.id,
                                                   !.uploadUrl = <<r.calls[Len(r.calls)]>>]]
    ELSE [r EXCEPT !.pc = "done", !.s3 = "failed", !.result = Err("s3"),
                   !.logged = Append(r.logged, SignLogEntry)]

UploadStart ==
    /\ Listening /\ UploadRoute \in plugin.routes
    /\ Room
    /\ nextId \in DOMAIN items
    /\ \E member \in Members, filename \in Filenames, h1, h2, h3 \in randomHexOf4,
          now \in DateNow :
         LET key == GenerateKey(h1, h2, h3, now) IN
         /\ Begins([UploadBegin(member, filename, key)
                        EXCEPT !.fresh = key \notin DOMAIN minted])
         /\ minted' = Mint(minted, key)
         /\ clock' = now
    /\ UNCHANGED <<plugin, items, nextId, objects, urls, fills>>

UploadCreate(s) ==
    /\ reqs[s].kind = "upload" /\ reqs[s].pc = "create"
    /\ \/ /\ nextId \in DOMAIN items
          /\ items' = [items EXCEPT ![nextId] =
                          CreateItem([type |-> reqs[s].itype, name |-> reqs[s].iname,
                                      s3File |-> reqs[s].s3File])]
          /\ nextId' = nextId + 1
          /\ Becomes(s, UploadAfterCreate(reqs[s], nextId))
       \/ /\ Becomes(s, [reqs[s] EXCEPT !.pc = "done",
                                                          !.result = Err("task")])
          /\ UNCHANGED <<items, nextId>>
    /\ UNCHANGED <<plugin, objects, urls, clock, minted, fills>>

UploadSign(s) ==
    /\ reqs[s].kind = "upload" /\ reqs[s].pc = "sign"
    /\ \/ /\ Becomes(s, UploadAfterSign(reqs[s], "ok"))
          /\ urls' = urls \cup {reqs[s].calls[Len(reqs[s].calls)]}
       \/ /\ Becomes(s, UploadAfterSign(reqs[s], "fail"))
          /\ urls' = urls
    /\ UNCHANGED <<plugin, items, nextId, objects, clock, minted, fills>>

\* ------------------------------------------------------------ the bucket
Object(size, contentType, metadata, disposition) ==
    [size |-> size, contentType |-> contentType, metadata |-> metadata,
     disposition |-> disposition]

PutObject(store, key, obj) ==
    [k \in DOMAIN store \cup {key} |-> IF k = key THEN obj ELSE store[k]]

RemoveObject(store, key) == [k \in DOMAIN store \ {key} |-> store[k]]

\* the client's PUT to a signed url, out of band
ClientPut ==
    /\ \E u \in urls, size \in Sizes, ct \in ContentTypes :
         objects' = PutObject(objects, u.Key, Object(size, ct, u.Metadata, Undefined))
    /\ last' = Idle
    /\ UNCHANGED <<plugin, items, nextId, urls, clock, reqs, minted, fills>>

\* ------------------------------------------------- GET /:id/s3-metadata
\* a variant: size && contenttype
IsCachedTruthySize(s3File) ==
    /\ s3File.size # Undefined
    /\ s3File.size[1] # 0
    /\ s3File.contenttype # Undefined
    /\ s3File.contenttype[1] # ""

\* a variant: (size === 0 && size) && contenttype
IsCachedNever(s3File) ==
    /\ s3File.size # Undefined
    /\ (s3File.size[1] = 0 /\ s3File.size[1] # 0)
    /\ s3File.contenttype # Undefined
    /\ s3File.contenttype[1] # ""

\* (size === 0 || size) && contenttype
IsCached(s3File) ==
    /\ s3File.size # Undefined
    /\ (s3File.size[1] = 0 \/ s3File.size[1] # 0)
    /\ s3File.contenttype # Undefined
    /\ s3File.contenttype[1] # ""

\* params of s3.headObject
HeadParams(key) == [op |-> "headObject", Bucket |-> bucket, Key |-> key]

\* a variant: Object.assign(s3File, { size: cL })
AssignSizeOnly(s3File, cL, cT) == [s3File EXCEPT !.size = cL]

\* a variant: the descriptor is built anew, its name cut like the item's
AssignMetadataRenamed(s3File, cL, cT) ==
    [s3File EXCEPT !.name = substring(s3File.name, ORIGINAL_FILENAME_TRUNCATE_LIMIT),
                   !.size = cL, !.contenttype = cT]

\* Object.assign(s3File, { size: cL, contenttype: cT })
AssignMetadata(s3File, cL, cT) == [s3File EXCEPT !.size = cL, !.contenttype = cT]

\* the get task has returned `item`: the handler up to `await s3.headObject(...)`
ResolveAfterGet(r, item) ==
    IF ~item.s3File.present
    THEN [r EXCEPT !.pc = "done", !.result = NotS3FileItem]
    ELSE IF IsCached(item.s3File)
    THEN [r EXCEPT !.pc = "done", !.s3File = item.s3File, !.result = Ok(item.s3File)]
    ELSE [r EXCEPT !.pc = "head", !.s3File = item.s3File, !.key = item.s3File.key,
                   !.s3 = "inflight",
                   !.calls = Append(r.calls, HeadParams(item.s3File.key))]

\* log.error(error, 'graasp-s3-file-item: failed to get s3 object metadata')
HeadLogEntry ==
    [msg |-> "graasp-s3-file-item: failed to get s3 object metadata", key |-> NoKey]

\* a variant: the catch logs and does not rethrow
ResolveAfterHeadSwallowed(r, outcome, cL, cT) ==
    [r EXCEPT !.pc = "update", !.s3 = IF outcome = "ok" THEN "ok" ELSE "failed",
              !.updates = r.updates + 1,
              !.s3File = AssignMetadata(r.s3File, cL, cT),
              !.logged = IF outcome = "ok" THEN r.logged
                                           ELSE Append(r.logged, HeadLogEntry)]

\* a variant: the catch heads the object once more before it gives up
ResolveAfterHeadRetried(r, outcome, cL, cT) ==
    IF outcome = "ok"
    THEN [r EXCEPT !.pc = "update", !.s3 = "ok", !.updates = r.updates + 1,
                   !.s3File = AssignMetadata(r.s3File, cL, cT)]
    ELSE IF Len(r.calls) < 2
    THEN [r EXCEPT !.calls = Append(r.calls, HeadParams(r.key)),
                   !.logged = Append(r.logged, HeadLogEntry)]
    ELSE [r EXCEPT !.pc = "done", !.s3 = "failed", !.result = Err("s3"),
                   !.logged = Append(r.logged, HeadLogEntry)]

\* the try/catch around headObject, up to `await runner.runSingle(updateTask, log)`
ResolveAfterHead(r, outcome, cL, cT) ==
    IF outcome = "ok"
    THEN [r EXCEPT !.pc = "update", !.s3 = "ok", !.updates = r.updates + 1,
                   !.s3File = AssignMetadata(r.s3File, cL, cT)]
    ELSE [r EXCEPT !.pc = "done", !.s3 = "failed", !.result = Err("s3"),
                   !.logged = Append(r.logged, HeadLogEntry)]

\* the update task has returned the item: return its extra.s3File
ResolveAfterUpdate(r, item) == [r EXCEPT !.pc = "done", !.result = Ok(item.s3File)]

ResolveGet ==
    /\ Listening /\ MetadataRoute \in plugin.routes
    /\ Room
    /\ \E member \in Members, id \in 1..(nextId - 1) :
         LET r == [Idle EXCEPT !.kind = "resolve", !.actor = member, !.id = id,
                               !.itype = items[id].type,
                               !.found = items[id].st = "live",
                               !.before = items[id].s3File,
                               !.filledAtStart = fills[id].done /\ items[id].st = "live",
                               !.fillAtStart = fills[id].value,
                               !.staleAtStart = fills[id].overwritten] IN
         Begins(IF items[id].st = "live"
                     THEN ResolveAfterGet(r, items[id])
                     ELSE [r EXCEPT !.pc = "done", !.result = Err("task")])
    /\ UNCHANGED <<plugin, items, nextId, objects, urls, clock, minted, fills>>

ResolveHead(s) ==
    /\ reqs[s].kind = "resolve" /\ reqs[s].pc = "head"
    /\ \/ /\ reqs[s].key \in DOMAIN objects
          /\ Becomes(s, ResolveAfterHead(reqs[s], "ok",
                                          Some(objects[reqs[s].key].size),
                                          Some(objects[reqs[s].key].contentType)))
       \/ Becomes(s, ResolveAfterHead(reqs[s], "fail", Undefined, Undefined))
    /\ UNCHANGED <<plugin, items, nextId, objects, urls, clock, minted, fills>>

ResolveUpdate(s) ==
    /\ reqs[s].kind = "resolve" /\ reqs[s].pc = "update"
    /\ LET id == reqs[s].id
           updated == UpdateItem(items[id], reqs[s].s3File) IN
       IF items[id].st = "live"
       THEN /\ items' = [items EXCEPT ![id] = updated]
            /\ Becomes(s, ResolveAfterUpdate(reqs[s], updated))
            /\ fills' = [fills EXCEPT ![id] =
                            IF ~fills[id].done
                            THEN [done |-> TRUE, value |-> updated.s3File,
                                  overwritten |-> FALSE]
                            ELSE [fills[id] EXCEPT !.overwritten =
                                      fills[id].overwritten
                                      \/ updated.s3File # fills[id].value]]
       ELSE /\ Becomes(s, [reqs[s] EXCEPT !.pc = "done",
                                                            !.result = Err("task")])
            /\ UNCHANGED <<items, fills>>
    /\ UNCHANGED <<plugin, nextId, objects, urls, clock, minted>>

\* ------------------------------------------------------- pre-copy hook
\* a variant: not (id || itemType !== ITEM_TYPE || !s3File)
PreCopyAppliesNegatedId(id, itemType, s3File) ==
    id = 0 /\ itemType = ITEM_TYPE /\ s3File.present

\* a variant: not (!id || !s3File)
PreCopyAppliesAnyType(id, itemType, s3File) == id # 0 /\ s3File.present

\* not (!id || itemType !== ITEM_TYPE || !s3File)
PreCopyApplies(id, itemType, s3File) ==
    id # 0 /\ itemType = ITEM_TYPE /\ s3File.present

\* params of s3.copyObject
CopyParams(key, newKey, name, contenttype, actor, id) ==
    [op |-> "copyObject", CopySource |-> <<bucket, key>>, Bucket |-> bucket,
     Key |-> newKey, Metadata |-> [member |-> actor, item |-> id],
     MetadataDirective |-> "REPLACE",
     ContentDisposition |-> <<"attachment", name>>,
     ContentType |-> contenttype, CacheControl |-> "no-cache"]

\* a variant: copyObject is not awaited
PreCopyHookNoAwait(r, newKey) ==
    IF ~PreCopyApplies(r.id, r.itype, r.s3File)
    THEN [r EXCEPT !.pc = "persist"]
    ELSE [r EXCEPT !.pc = "persist", !.key = newKey, !.s3 = "inflight",
                   !.s3File.key = newKey,
                   !.calls = Append(r.calls,
                                    CopyParams(r.s3File.key, newKey, r.s3File.name,
                                               r.s3File.contenttype, r.actor, r.id))]

\* a variant: Key: key
PreCopyHookOntoSource(r, newKey) ==
    IF ~PreCopyApplies(r.id, r.itype, r.s3File)
    THEN [r EXCEPT !.pc = "persist"]
    ELSE [r EXCEPT !.pc = "copying", !.key = r.s3File.key, !.s3 = "inflight",
                   !.calls = Append(r.calls,
                                    CopyParams(r.s3File.key, r.s3File.key, r.s3File.name,
                                               r.s3File.contenttype, r.actor, r.id))]

\* the hook on the in-flight copy r, up to `await s3.copyObject(params).promise()`
PreCopyHook(r, newKey) ==
    IF ~PreCopyApplies(r.id, r.itype, r.s3File)
    THEN [r EXCEPT !.pc = "persist"]
    ELSE [r EXCEPT !.pc = "copying", !.key = newKey, !.s3 = "inflight",
                   !.calls = Append(r.calls,
                                    CopyParams(r.s3File.key, newKey, r.s3File.name,
                                               r.s3File.contenttype, r.actor, r.id))]

\* a variant: a rejection is caught and the hook returns
PreCopySettledSwallowed(r, outcome) ==
    IF outcome = "ok"
    THEN [r EXCEPT !.pc = "persist", !.s3 = "ok", !.s3File.key = r.key]
    ELSE [r EXCEPT !.pc = "persist", !.s3 = "failed"]

\* a variant: the key of the in-flight copy is not rewritten
PreCopySettledNoRewrite(r, outcome) ==
    IF outcome = "ok"
    THEN [r EXCEPT !.pc = "persist", !.s3 = "ok"]
    ELSE [r EXCEPT !.pc = "done", !.s3 = "failed", !.result = Err("s3")]

\* the copyObject promise settles: `s3File.key = newKey`, or the hook rejects and
\* the copy task fails with it
PreCopySettled(r, outcome) ==
    IF outcome = "ok"
    THEN [r EXCEPT !.pc = "persist", !.s3 = "ok", !.s3File.key = r.key]
    ELSE [r EXCEPT !.pc = "done", !.s3 = "failed", !.result = Err("s3")]

\* S3 CopyObject with MetadataDirective REPLACE: the bytes of the source, the
\* metadata of the request
CopiedObject(source, params) ==
    Object(source.size,
           IF params.ContentType = Undefined THEN DefaultContentType
                                             ELSE params.ContentType[1],
           params.Metadata, Some(params.ContentDisposition))

\* the copy task: the in-flight copy of item src under a new id, then the pre hook
CopyStart ==
    /\ Listening /\ CopyHook \in plugin.hooks
    /\ Room
    /\ nextId \in DOMAIN items
    /\ \E actor \in Members, src \in 1..(nextId - 1), h1, h2, h3 \in randomHexOf4,
          now \in DateNow :
         LET newKey == GenerateKey(h1, h2, h3, now)
             r == [Idle EXCEPT !.kind = "copy", !.actor = actor, !.id = nextId,
                               !.src = src, !.itype = items[src].type,
                               !.iname = items[src].name,
                               !.s3File = items[src].s3File,
                               !.before = items[src].s3File]
             applies == PreCopyHook(r, newKey).calls # <<>> IN
         /\ items[src].st = "live"
         /\ Begins([PreCopyHook(r, newKey)
                        EXCEPT !.fresh = applies /\ newKey \notin DOMAIN minted])
         /\ minted' = IF applies THEN Mint(minted, newKey) ELSE minted
         /\ clock' = IF applies THEN now ELSE clock
    /\ nextId' = nextId + 1
    /\ UNCHANGED <<plugin, items, objects, urls, fills>>

CopyObjectDone(s) ==
    /\ reqs[s].kind = "copy" /\ reqs[s].pc = "copying"
    /\ LET params == reqs[s].calls[Len(reqs[s].calls)]
           source == params.CopySource[2] IN
       \/ /\ source \in DOMAIN objects
          /\ objects' = PutObject(objects, params.Key,
                                  CopiedObject(objects[source], params))
          /\ Becomes(s, PreCopySettled(reqs[s], "ok"))
       \/ /\ Becomes(s, PreCopySettled(reqs[s], "fail"))
          /\ objects' = objects
    /\ UNCHANGED <<plugin, items, nextId, urls, clock, minted, fills>>

\* the copy task persists the in-flight copy after its pre hook
CopyPersist(s) ==
    /\ reqs[s].kind = "copy" /\ reqs[s].pc = "persist"
    /\ items' = [items EXCEPT ![reqs[s].id] =
                    [st |-> "live", type |-> reqs[s].itype, name |-> reqs[s].iname,
                     s3File |-> reqs[s].s3File]]
    /\ Becomes(s, [reqs[s] EXCEPT !.pc = "done", !.persisted = TRUE,
                                                   !.result = [Ok(reqs[s].s3File)
                                                                  EXCEPT !.item = reqs[s].id]])
    /\ UNCHANGED <<plugin, nextId, objects, urls, clock, minted, fills>>

\* ------------------------------------------------------ post-delete hook
\* not (itemType !== ITEM_TYPE || !s3File)
PostDeleteApplies(itemType, s3File) == itemType = ITEM_TYPE /\ s3File.present

\* params of s3.deleteObject
DeleteParams(key) == [op |-> "deleteObject", Bucket |-> bucket, Key |-> key]

\* the hook on the deleted item r: it calls deleteObject and returns without
\* awaiting, so the delete task ends here with its own result
PostDeleteHook(r) ==
    IF ~PostDeleteApplies(r.itype, r.s3File)
    THEN [r EXCEPT !.pc = "done", !.result = Ok(r.s3File)]
    ELSE [r EXCEPT !.pc = "deleting", !.key = r.s3File.key, !.s3 = "inflight",
                   !.result = Ok(r.s3File),
                   !.calls = Append(r.calls, DeleteParams(r.s3File.key))]

\* log.error(error, `graasp-s3-file-item: failed to delete s3 object '${key}'`)
DeleteLogEntry(key) ==
    [msg |-> "graasp-s3-file-item: failed to delete s3 object", key |-> key]

\* a variant: the rejection reaches the delete task
PostDeleteSettledPropagated(r, outcome) ==
    IF outcome = "ok"
    THEN [r EXCEPT !.pc = "done", !.s3 = "ok"]
    ELSE [r EXCEPT !.pc = "done", !.s3 = "failed", !.result = Err("s3")]

\* the deleteObject promise settles; .catch() logs the rejection
PostDeleteSettled(r, outcome) ==
    IF outcome = "ok"
    THEN [r EXCEPT !.pc = "done", !.s3 = "ok"]
    ELSE [r EXCEPT !.pc = "done", !.s3 = "failed",
                   !.logged = Append(r.logged, DeleteLogEntry(r.key))]

\* the delete task removes the record; its post hook runs afterwards
DeleteRecord ==
    /\ Listening /\ DeleteHook \in plugin.hooks
    /\ Room
    /\ \E actor \in Members, id \in 1..(nextId - 1) :
         /\ items[id].st = "live"
         /\ items' = [items EXCEPT ![id].st = "deleted"]
         /\ Begins([Idle EXCEPT !.kind = "delete", !.pc = "posthook",
                                     !.actor = actor, !.id = id,
                                     !.itype = items[id].type,
                                     !.iname = items[id].name,
                                     !.s3File = items[id].s3File,
                                     !.before = items[id].s3File,
                                     !.persisted = TRUE])
    /\ UNCHANGED <<plugin, nextId, objects, urls, clock, minted, fills>>

DeletePostHook(s) ==
    /\ reqs[s].kind = "delete" /\ reqs[s].pc = "posthook"
    /\ Becomes(s, PostDeleteHook(reqs[s]))
    /\ UNCHANGED <<plugin, items, nextId, objects, urls, clock, minted, fills>>

DeleteObjectDone(s) ==
    /\ reqs[s].kind = "delete" /\ reqs[s].pc = "deleting"
    /\ \/ /\ objects' = RemoveObject(objects, reqs[s].key)
          /\ Becomes(s, PostDeleteSettled(reqs[s], "ok"))
       \/ /\ Becomes(s, PostDeleteSettled(reqs[s], "fail"))
          /\ objects' = objects
    /\ UNCHANGED <<plugin, items, nextId, urls, clock, minted, fills>>

\* ------------------------------------------------- items of other plugins
\* an item of another type, with or without an extra.s3File of the same shape
ForeignS3File ==
    [present |-> TRUE, name |-> [stem |-> "notes", len |-> 5],
     key |-> GenerateKey(0, 0, 0, 0), size |-> Undefined, contenttype |-> Undefined]

ExternalCreate ==
    /\ Listening
    /\ nextId \in DOMAIN items
    /\ \E s3File \in {NoS3File, ForeignS3File} :
         items' = [items EXCEPT ![nextId] =
                      CreateItem([type |-> OtherType, name |-> [stem |-> "notes", len |-> 5],
                                  s3File |-> s3File])]
    /\ nextId' = nextId + 1
    /\ last' = Idle
    /\ UNCHANGED <<plugin, objects, urls, clock, reqs, minted, fills>>

\* ------------------------------------------------------- specification
Next ==
    \/ PluginStart
    \/ PluginLimiterDone
    \/ ClientPut
    \/ ExternalCreate
    \/ UploadStart
    \/ ResolveGet
    \/ CopyStart
    \/ DeleteRecord
    \/ \E s \in DOMAIN reqs :
         \/ UploadCreate(s) \/ UploadSign(s)
         \/ ResolveHead(s) \/ ResolveUpdate(s)
         \/ CopyObjectDone(s) \/ CopyPersist(s)
         \/ DeletePostHook(s) \/ DeleteObjectDone(s)

Spec == Init /\ [][Next]_vars

\* ------------------------------------- the operations that mint a key, alone
\* the key of a file uploaded earlier: one the generator does not produce again
SeedKey == GenerateKey(HexMax + 1, 0, 0, 0)

\* the plugin has loaded, and a file item uploaded earlier has its object
MintInit ==
    /\ items = [i \in 1..(MaxMints + 1) |->
                   IF i = 1
                   THEN CreateItem(UploadItemData([stem |-> "report", len |-> 101], SeedKey))
                   ELSE NoItem]
    /\ nextId = 2
    /\ objects = (SeedKey :> Object(1024, "application/pdf",
                                    UploadParams(SeedKey, "m1", 1).Metadata, Undefined))
    /\ urls = {}
    /\ clock = 0
    /\ reqs = <<>>
    /\ last = Idle
    /\ minted = (SeedKey :> FALSE)
    /\ fills = [i \in 1..(MaxMints + 1) |-> NoFill]
    /\ plugin = PluginAfterLimiter(
                    PluginBegin([pc |-> "start",
                                 options |-> [s3Region |-> Some("region"),
                                              s3Bucket |-> Some(bucket),
                                              s3AccessKeyId |-> Some("id"),
                                              s3SecretAccessKey |-> Some("secret")],
                                 hooks |-> {}, routes |-> {}, error |-> ""]),
                    "ok")

\* uploads and copies in any interleaving
MintNext ==
    \/ UploadStart
    \/ CopyStart
    \/ \E s \in DOMAIN reqs :
         \/ UploadCreate(s) \/ UploadSign(s)
         \/ CopyObjectDone(s) \/ CopyPersist(s)

MintSpec == MintInit /\ [][MintNext]_vars

\* ------------------------------------------------------------ properties
\* the requests and tasks in flight, and the one that has just ended
Requests == {reqs[s] : s \in DOMAIN reqs} \cup {last}

IsFileItem(type, s3File) == type = ITEM_TYPE /\ s3File.present

\* C1 as stated: once a resolve of an item has completed with its one head call
\* and one update (the fill), every later resolve that finds the item issues no
\* head call and no update and returns the descriptor the fill returned.
C1_LaterResolveReturnsTheFill ==
    \A r \in Requests :
        (r.kind = "resolve" /\ r.filledAtStart) =>
            /\ r.calls = <<>>
            /\ r.updates = 0
            /\ r.pc = "done"
            /\ r.result = Ok(r.fillAtStart)

\* C1 as amended: a later resolve issues no head call and no update and returns
\* the persisted descriptor, which has size and contenttype, and the key and name
\* of the fill; it is the descriptor the fill returned unless a resolve that had
\* read the item before the fill has since written another head result.
C1_LaterResolveIsCached ==
    \A r \in Requests :
        (r.kind = "resolve" /\ r.filledAtStart) =>
            /\ r.calls = <<>>
            /\ r.updates = 0
            /\ r.pc = "done"
            /\ r.result.status = "ok"
            /\ r.result.value = r.before
            /\ r.result.value.size # Undefined
            /\ r.result.value.contenttype # Undefined
            /\ r.result.value.key = r.fillAtStart.key
            /\ r.result.value.name = r.fillAtStart.name
            /\ (~r.staleAtStart => r.result = Ok(r.fillAtStart))

\* a resolve after a fill of size 0 has returned that fill
C1_Witness ==
    /\ last.kind = "resolve" /\ last.filledAtStart /\ ~last.staleAtStart
    /\ last.fillAtStart.size = Some(0)
    /\ last.result = Ok(last.fillAtStart)

\* C2: when the copyObject call of the pre-copy hook fails, the copy task fails
\* with it and no record of the copy is persisted.
C2_CopyFailureIsFatal ==
    \A r \in Requests :
        (r.kind = "copy" /\ r.s3 = "failed") =>
            /\ r.pc = "done"
            /\ r.result.status = "error"
            /\ ~r.persisted
            /\ items[r.id].st = "free"

C2_Witness ==
    /\ last.kind = "copy" /\ last.s3 = "failed"
    /\ Len(last.calls) = 1 /\ last.calls[1].op = "copyObject"

\* the one copyObject call of a persisted copy of a file item, and the record
CopyIsRewired(r) ==
    /\ Len(r.calls) = 1
    /\ r.calls[1].op = "copyObject"
    /\ r.calls[1].CopySource = <<bucket, r.before.key>>
    /\ r.calls[1].Key = r.key
    /\ r.s3 = "ok"
    /\ items[r.id].st = "live"
    /\ items[r.id].s3File.key = r.key
    /\ items[r.id].s3File = [r.before EXCEPT !.key = r.key]

\* C3 as stated: a persisted copy of a file item has issued exactly one
\* copyObject call, from the key of the source to the minted key, its record
\* references the minted key, and that key differs from the key of the source.
C3_CopyKeyDiffers ==
    (last.kind = "copy" /\ last.persisted /\ IsFileItem(last.itype, last.before)) =>
        /\ CopyIsRewired(last)
        /\ last.key # last.before.key

\* C3 as amended: the same, the minted key differing from the key of the source
\* when the generator has not produced it before.
C3_CopyIsRewired ==
    (last.kind = "copy" /\ last.persisted /\ IsFileItem(last.itype, last.before)) =>
        /\ CopyIsRewired(last)
        /\ (last.fresh => last.key # last.before.key)

C3_Witness ==
    /\ last.kind = "copy" /\ last.persisted /\ IsFileItem(last.itype, last.before)
    /\ last.fresh
    /\ items[last.id].s3File.key # items[last.src].s3File.key

\* C4: when the deleteObject call of the post-delete hook fails, the failure is
\* logged with the key and nothing else happens: the delete task has succeeded,
\* the call is the only one, and the record is deleted.
C4_DeleteIsBestEffort ==
    \A r \in Requests :
        (r.kind = "delete" /\ r.s3 = "failed") =>
            /\ r.pc = "done"
            /\ r.result.status = "ok"
            /\ Len(r.calls) = 1
            /\ r.calls[1] = DeleteParams(r.before.key)
            /\ r.logged = <<DeleteLogEntry(r.before.key)>>
            /\ items[r.id].st = "deleted"

C4_Witness ==
    /\ last.kind = "delete" /\ last.s3 = "failed"
    /\ last.key \in DOMAIN objects

\* C5: a copy is persisted only after its copyObject call has completed, and a
\* deleteObject call is issued only after the record is deleted.
C5_Ordering ==
    \A r \in Requests :
        /\ (r.kind = "copy" /\ r.calls # <<>>) =>
               /\ (r.s3 = "inflight" => ~r.persisted /\ items[r.id].st = "free")
               /\ (r.persisted => r.s3 = "ok")
        /\ (r.kind = "delete" /\ r.calls # <<>>) =>
               r.persisted /\ items[r.id].st = "deleted"

\* a copy has just been persisted while a deleteObject call is in flight
C5_Witness ==
    /\ last.kind = "copy" /\ last.persisted /\ last.s3 = "ok"
    /\ \E s \in DOMAIN reqs : reqs[s].kind = "delete" /\ reqs[s].s3 = "inflight"

\* C6: on an item of another type the pre-copy and the post-delete hook issue no
\* store call and leave the item as it is, descriptor-shaped field or not.
C6_TypeIsolation ==
    \A r \in Requests :
        (r.kind \in {"copy", "delete"} /\ r.itype # ITEM_TYPE) =>
            /\ r.calls = <<>>
            /\ r.s3 = "none"
            /\ r.s3File = r.before
            /\ (r.kind = "copy" /\ r.persisted => items[r.id].s3File = r.before)

\* the copy of an item of another type that has a descriptor-shaped field has
\* been persisted, and the delete of that item has ended meanwhile
C6_Witness ==
    /\ last.kind = "copy" /\ last.persisted /\ last.itype = OtherType
    /\ last.before = ForeignS3File
    /\ items[last.id].s3File = ForeignS3File
    /\ items[last.src].st = "deleted" /\ reqs = <<>>

\* C7: a resolve of an item of another type, or of an item with no descriptor,
\* fails with NotS3FileItem (400) and issues no store call and no update.
C7_NotAFileItem ==
    \A r \in Requests :
        (r.kind = "resolve" /\ r.found /\ ~IsFileItem(r.itype, r.before)) =>
            /\ r.pc = "done"
            /\ r.result = NotS3FileItem
            /\ r.result.statusCode = 400
            /\ r.calls = <<>>
            /\ r.updates = 0

\* C8: a resolve whose head call fails ends with that error, has issued no
\* update, and the step that ends it leaves every item record as it was.
C8_HeadFailureWritesNothing ==
    [][(last'.kind = "resolve" /\ last'.s3 = "failed") =>
           /\ last'.result = Err("s3")
           /\ last'.updates = 0
           /\ items' = items
           /\ \A s \in DOMAIN reqs' :
                  reqs'[s].kind = "resolve" => reqs'[s].s3 # "failed"]_vars

\* the head call of a resolve has failed on the key of an item deleted meanwhile
C8_Witness ==
    /\ last.kind = "resolve" /\ last.s3 = "failed"
    /\ items[last.id].st = "deleted"
    /\ last.key \notin DOMAIN objects

\* C9: every persisted descriptor has both size and contenttype or neither.
C9_SizeAndContentTypeTogether ==
    \A i \in DOMAIN items :
        (items[i].st = "live" /\ items[i].s3File.present) =>
            (items[i].s3File.size = Undefined <=> items[i].s3File.contenttype = Undefined)

C9_Witness ==
    \E i, j \in DOMAIN items :
        /\ items[i].st = "live" /\ items[i].s3File.size = Some(0)
        /\ items[i].s3File.contenttype # Undefined
        /\ items[j].st = "live" /\ items[j].s3File.present
        /\ items[j].s3File.size = Undefined

\* C10: a successful upload has created the record of a file item whose
\* descriptor has the submitted filename, the minted key and no size or
\* contenttype, and returns it with a signed url for that key that expires
\* after the configured 60 seconds.
C10_UploadRoundTrip ==
    (last.kind = "upload" /\ last.result.status = "ok") =>
        /\ last.result.item = last.id
        /\ last.result.value = [present |-> TRUE, name |-> last.filename,
                                key |-> last.key, size |-> Undefined,
                                contenttype |-> Undefined]
        /\ items[last.id].st # "free"
        /\ items[last.id].type = ITEM_TYPE
        /\ items[last.id].s3File.name = last.filename
        /\ items[last.id].s3File.key = last.key
        /\ last.creates = 1
        /\ Len(last.calls) = 1
        /\ last.result.uploadUrl = <<last.calls[1]>>
        /\ last.calls[1].op = "getSignedUrl"
        /\ last.calls[1].Key = last.key
        /\ last.calls[1].Expires = 60
        /\ last.calls[1] \in urls

C10_Witness ==
    /\ last.kind = "upload" /\ last.result.status = "ok"
    /\ last.filename.len > ORIGINAL_FILENAME_TRUNCATE_LIMIT
    /\ items[last.id].st = "live"

\* C12: an upload whose signed-url call fails ends with that error, thrown again
\* by the catch that logs it, and has issued that one call and no other.
C12_SignFailurePropagates ==
    \A r \in Requests :
        (r.kind = "upload" /\ r.s3 = "failed") =>
            /\ r.pc = "done"
            /\ r.result = Err("s3")
            /\ r.calls = <<UploadParams(r.key, r.actor, r.id)>>
            /\ r.logged = <<SignLogEntry>>

C12_Witness ==
    /\ last.kind = "upload" /\ last.s3 = "failed"
    /\ Len(last.calls) = 1 /\ last.calls[1].op = "getSignedUrl"
    /\ last.logged = <<SignLogEntry>>
    /\ last.calls[1] \notin urls

\* C19: an upload issues its signed-url call only once the create task has
\* persisted the record with the minted key; an upload whose create task fails
\* has issued no call; and the step in which the signed-url call fails leaves
\* every item record as it is, the one just created included: the handler runs
\* its one create task and no other.
C19_CreateBeforeSign ==
    /\ [](\A r \in Requests :
             r.kind = "upload" =>
                 /\ r.calls # <<>> =>
                        /\ r.persisted
                        /\ items[r.id].st # "free"
                        /\ items[r.id].s3File.key = r.key
                        /\ r.calls = <<UploadParams(r.key, r.actor, r.id)>>
                 /\ ~r.persisted => r.calls = <<>> /\ r.s3 = "none"
                 /\ r.result = Err("task") => r.calls = <<>> /\ ~r.persisted
                 /\ r.creates = 1)
    /\ [][(last'.kind = "upload" /\ last'.s3 = "failed") =>
              /\ items' = items
              /\ last'.persisted /\ last'.creates = 1]_vars

\* the signed-url call has failed and the record the upload created is live
C19_Witness ==
    /\ last.kind = "upload" /\ last.s3 = "failed" /\ last.persisted
    /\ items[last.id].st = "live"
    /\ items[last.id].s3File.key = last.key

\* C18: a resolve heads the key it read from the item and carries the key and
\* the name it read into its update; the step that ends a resolve changes no
\* key, name or type of any record, and changes in the record of its item
\* nothing but size and contenttype.
C18_ResolveKeepsKeyAndName ==
    /\ [](\A r \in Requests :
             (r.kind = "resolve" /\ r.calls # <<>>) =>
                 /\ r.calls = <<HeadParams(r.before.key)>>
                 /\ r.s3File.key = r.before.key
                 /\ r.s3File.name = r.before.name
                 /\ r.updates > 0 => r.s3File = [r.before EXCEPT
                                                    !.size = r.s3File.size,
                                                    !.contenttype = r.s3File.contenttype])
    /\ [][last'.kind = "resolve" =>
              \A i \in DOMAIN items :
                  /\ items'[i].s3File.key = items[i].s3File.key
                  /\ items'[i].s3File.name = items[i].s3File.name
                  /\ items'[i] = [items[i] EXCEPT
                                     !.s3File.size = items'[i].s3File.size,
                                     !.s3File.contenttype = items'[i].s3File.contenttype]
                  /\ i # last'.id => items'[i] = items[i]]_vars

\* a resolve has just filled the descriptor of an item that has a long name
C18_Witness ==
    /\ last.kind = "resolve" /\ last.updates = 1 /\ last.result.status = "ok"
    /\ last.before.size = Undefined
    /\ last.before.name.len > ORIGINAL_FILENAME_TRUNCATE_LIMIT
    /\ items[last.id].s3File = last.result.value
    /\ items[last.id].s3File.size # Undefined
    /\ items[last.id].s3File.key = last.before.key
    /\ items[last.id].s3File.name = last.before.name

\* C14: the copyObject call of every copy of a file item, its descriptor filled
\* or not, replaces the metadata, names the descriptor's name in an attachment
\* disposition and supplies the content type of the source object, and the
\* object it writes has the content type of the source object.
C14_CopyKeepsContentType ==
    [][\A s \in DOMAIN reqs :
           (/\ reqs[s].kind = "copy" /\ reqs[s].pc = "copying"
            /\ s \in DOMAIN reqs' /\ reqs'[s].id = reqs[s].id
            /\ reqs'[s].pc = "persist") =>
               LET params == reqs[s].calls[1]
                   source == objects[reqs[s].before.key] IN
               /\ params.MetadataDirective = "REPLACE"
               /\ params.ContentDisposition = <<"attachment", reqs[s].before.name>>
               /\ params.ContentType = Some(source.contentType)
               /\ objects'[params.Key].contentType = source.contentType]_vars

\* C15 as stated: of the resolves of one item in flight at once at most one has
\* issued a head call, and a resolve's update is applied only to a descriptor
\* that no earlier update has filled.
C15_OneFillPerDescriptor ==
    /\ [](\A s, t \in DOMAIN reqs :
             (/\ s # t
              /\ reqs[s].kind = "resolve" /\ reqs[t].kind = "resolve"
              /\ reqs[s].id = reqs[t].id) =>
                 ~(reqs[s].calls # <<>> /\ reqs[t].calls # <<>>))
    /\ [][(last'.kind = "resolve" /\ last'.updates > 0 /\ last'.result.status = "ok")
              => ~fills[last'.id].done]_vars

\* C15 as amended: a resolve issues at most one head call and at most one
\* update, the update only after its head call has succeeded, and both only when
\* the descriptor it read had no size or no contenttype; a resolve that read a
\* filled descriptor issues neither.
C15_OneFillPerRequest ==
    \A r \in Requests :
        r.kind = "resolve" =>
            /\ Len(r.calls) <= 1
            /\ r.updates <= 1
            /\ r.updates = 1 => Len(r.calls) = 1 /\ r.s3 = "ok"
            /\ r.calls # <<>> =>
                   /\ r.calls[1] = HeadParams(r.before.key)
                   /\ r.before.present
                   /\ r.before.size = Undefined \/ r.before.contenttype = Undefined
            /\ (r.before.size # Undefined /\ r.before.contenttype # Undefined) =>
                   r.calls = <<>> /\ r.updates = 0

\* two resolves read the unfilled descriptor of one item; one has just written
\* its head result, the other has its own head result and is about to write it
C15_Witness ==
    /\ last.kind = "resolve" /\ last.updates = 1 /\ last.result.status = "ok"
    /\ \E s \in DOMAIN reqs :
           /\ reqs[s].kind = "resolve" /\ reqs[s].id = last.id
           /\ reqs[s].pc = "update" /\ reqs[s].updates = 1
           /\ Len(reqs[s].calls) = 1

\* a descriptor with size and contenttype
IsFilled(s3File) == s3File.size # Undefined /\ s3File.contenttype # Undefined

\* C16 as stated: once the descriptor of a record has size and contenttype, no
\* step changes or removes them.
C16_FillNeverChanges ==
    [][\A i \in DOMAIN items :
           IsFilled(items[i].s3File) =>
               /\ items'[i].s3File.size = items[i].s3File.size
               /\ items'[i].s3File.contenttype = items[i].s3File.contenttype]_vars

\* C16 as amended: once the descriptor of a record has size and contenttype it
\* keeps having both, and the only step that changes their values is the update
\* of a resolve of that item that had read the descriptor before it was filled.
C16_FillStays ==
    [][\A i \in DOMAIN items :
           IsFilled(items[i].s3File) =>
               /\ IsFilled(items'[i].s3File)
               /\ items'[i].s3File # items[i].s3File =>
                      /\ last'.kind = "resolve" /\ last'.id = i
                      /\ last'.updates = 1
                      /\ ~IsFilled(last'.before)
                      /\ items'[i].s3File = last'.s3File
                      /\ items'[i].s3File = [items[i].s3File EXCEPT
                                                 !.size = last'.s3File.size,
                                                 !.contenttype = last'.s3File.contenttype]]_vars

\* a resolve that had read the unfilled descriptor has just written another
\* size over the one of the first fill
C16_Witness ==
    /\ last.kind = "resolve" /\ last.updates = 1 /\ last.result.status = "ok"
    /\ fills[last.id].done /\ fills[last.id].overwritten
    /\ IsFilled(items[last.id].s3File)
    /\ items[last.id].s3File.size # fills[last.id].value.size

\* C13: when a mandatory option (region, bucket, access key id, secret access
\* key) is not given, the plugin fails with the configuration error and has
\* registered no hook and no route, and no request or task ever runs.
C13_MissingOptionsAreFatal ==
    (/\ plugin.pc # "start"
     /\ \E o \in {"s3Region", "s3Bucket", "s3AccessKeyId", "s3SecretAccessKey"} :
            plugin.options[o] = Undefined) =>
        /\ plugin.pc = "failed"
        /\ plugin.error = ConfigurationError
        /\ plugin.hooks = {}
        /\ plugin.routes = {}
        /\ reqs = <<>> /\ last = Idle /\ nextId = 1

\* the plugin has failed for the secret access key alone
C13_Witness ==
    /\ plugin.pc = "failed" /\ plugin.error = ConfigurationError
    /\ plugin.options.s3SecretAccessKey = Undefined
    /\ plugin.options.s3Region = Some("region")
    /\ plugin.options.s3Bucket = Some(bucket)
    /\ plugin.options.s3AccessKeyId = Some("id")
    /\ plugin.hooks = {} /\ plugin.routes = {}

\* the record of a file item that is persisted and not deleted
IsLiveFileItem(i) == items[i].st = "live" /\ IsFileItem(items[i].type, items[i].s3File)

\* the generator has produced key once and no more
MintedOnce(key) == key \in DOMAIN minted /\ ~minted[key]

\* C17: two persisted file items reference the same key only when the generator
\* has produced that key more than once; and the one deleteObject call of a
\* delete is for the key of the deleted item, which no persisted file item
\* references unless the generator has produced it more than once.
C17_KeysAreNotShared ==
    /\ \A i, j \in DOMAIN items :
           (i # j /\ IsLiveFileItem(i) /\ IsLiveFileItem(j)
            /\ items[i].s3File.key = items[j].s3File.key) =>
               ~MintedOnce(items[i].s3File.key)
    /\ \A r \in Requests :
           (r.kind = "delete" /\ r.calls # <<>>) =>
               /\ r.calls = <<DeleteParams(items[r.id].s3File.key)>>
               /\ items[r.id].st = "deleted"
               /\ \A j \in DOMAIN items :
                      (IsLiveFileItem(j) /\ items[j].s3File.key = r.calls[1].Key) =>
                          ~MintedOnce(r.calls[1].Key)

\* the copy of a file item has been deleted and its object removed, and the
\* object of the original is still there
C17_Witness ==
    /\ last.kind = "delete" /\ last.s3 = "ok"
    /\ MintedOnce(last.before.key)
    /\ last.before.key \notin DOMAIN objects
    /\ \E j \in DOMAIN items :
           /\ j < last.id /\ IsLiveFileItem(j)
           /\ MintedOnce(items[j].s3File.key)
           /\ items[j].s3File.key \in DOMAIN objects
           /\ objects[items[j].s3File.key].metadata.item = j
           /\ items[last.id].s3File.name = items[j].s3File.name

\* an upload, or a copy whose hook has minted a key
Mints(r) == r.kind = "upload" \/ (r.kind = "copy" /\ r.calls # <<>>)

\* C11 as stated: no two uploads or copies in flight at once have the same key.
C11_KeysNeverCollide ==
    \A s, t \in DOMAIN reqs :
        (s # t /\ Mints(reqs[s]) /\ Mints(reqs[t])) => reqs[s].key # reqs[t].key

\* C11 as amended: an upload is authorized for the key it minted and no other,
\* a copy writes to the key it minted and no other, and two of them in flight at
\* once have the same key only when the generator has produced that key more
\* than once.
C11_KeysCollideOnlyOnRepeat ==
    /\ \A r \in Requests :
           (Mints(r) /\ r.calls # <<>>) =>
               /\ Len(r.calls) = 1
               /\ r.calls[1].Key = r.key
               /\ r.key \in DOMAIN minted
    /\ \A s, t \in DOMAIN reqs :
           (s # t /\ Mints(reqs[s]) /\ Mints(reqs[t]) /\ reqs[s].key = reqs[t].key) =>
               ~MintedOnce(reqs[s].key)

\* two copies of one file item are in flight, each writing to a key of its own
C11_Witness ==
    /\ Len(reqs) = 2
    /\ reqs[1].kind = "copy" /\ reqs[2].kind = "copy"
    /\ reqs[1].src = reqs[2].src
    /\ reqs[1].s3 = "inflight" /\ reqs[2].s3 = "inflight"
    /\ reqs[1].calls[1].CopySource = reqs[2].calls[1].CopySource
    /\ reqs[1].calls[1].Key # reqs[2].calls[1].Key
    /\ MintedOnce(reqs[1].key) /\ MintedOnce(reqs[2].key)

====
